---- MODULE Spec2Model ----
(***************************************************************************)
(* Shopify orders/create webhook -> dropshipping provider bridge.          *)
(*                                                                         *)
(* Specifications of the module:                                           *)
(*   Spec        the service calls (submitOrder through the webhook        *)
(*               handler, getOrders, testConnection) as concurrent         *)
(*               invocations, each with its own position and HTTP call;    *)
(*   SpecMapper  the pure OrderMapper functions and the synchronous part   *)
(*               of submitOrder applied to a wide range of orders.         *)
(***************************************************************************)
EXTENDS Integers, Sequences, FiniteSets, TLC

\* ------------------------------------------------------------------ bounds
NumInvocations == 2
MaxItems == 3

\* ------------------------------------------------------- JavaScript values
\* A string-valued property that is missing reads as undefined.
Undefined == "<undefined>"
\* An object-valued property (address, line_items, payload) that is missing.
NoObject == [undefined |-> TRUE]
\* A JS array held in a property that may also be missing.
Arr(seq) == [array |-> seq]
\* A null element of the line_items array.
NullItem == [null |-> TRUE]
\* Placeholder of a model variable that holds nothing yet.
NoValue == [none |-> TRUE]

\* JS truthiness of an optional string: undefined and '' are falsy.
Truthy(s) == s # Undefined /\ s # ""
\* a || b on optional strings
OrElse(a, b) == IF Truthy(a) THEN a ELSE b
IsAbsent(obj) == obj = NoObject

\* Completion of a call: a returned value or a thrown error.
Return(v) == [threw |-> FALSE, value |-> v]
Throw(e) == [threw |-> TRUE, error |-> e]
\* new Error(message) / TypeError raised by the runtime
Error(msg) == [isError |-> TRUE, isAxios |-> FALSE, message |-> msg, status |-> 0]
\* a thrown value that is not an Error instance (authenticate throws a Response)
NonError == [isError |-> FALSE, isAxios |-> FALSE, message |-> Undefined, status |-> 0]
\* AxiosError; status 0 stands for "no response"
AxiosError(msg, st) == [isError |-> TRUE, isAxios |-> TRUE, message |-> msg, status |-> st]

\* Tagged values of the requestData object (Record<string, string | number>)
JsStr(s) == IF s = Undefined THEN [t |-> "undefined"] ELSE [t |-> "string", s |-> s]
JsNum(n) == [t |-> "number", n |-> n]

\* ------------------------------------------------------------ OrderMapper
ToLowerCase(s) ==
  CASE s = "Jane" -> "jane"
    [] s = "JOHN" -> "john"
    [] s = "Order Shipped" -> "order shipped"
    [] OTHER -> s

mapProductBucketUnfiltered(lineItems) ==
  IF IsAbsent(lineItems)
  THEN Throw(Error("Cannot read properties of undefined (reading 'forEach')"))
  ELSE IF \E p \in 1..Len(lineItems.array) : lineItems.array[p] = NullItem
  THEN Throw(Error("Cannot read properties of null (reading 'sku')"))
  ELSE Return([index \in 0..(Len(lineItems.array) - 1) |->
                 [sku  |-> lineItems.array[index + 1].sku,
                  size |-> OrElse(lineItems.array[index + 1].variant_title, "default"),
                  qty  |-> lineItems.array[index + 1].quantity]])

mapProductBucketNoDefault(lineItems) ==
  IF IsAbsent(lineItems)
  THEN Throw(Error("Cannot read properties of undefined (reading 'forEach')"))
  ELSE IF \E p \in 1..Len(lineItems.array) : lineItems.array[p] = NullItem
  THEN Throw(Error("Cannot read properties of null (reading 'sku')"))
  ELSE Return([index \in {j \in 0..(Len(lineItems.array) - 1) : Truthy(lineItems.array[j + 1].sku)} |->
                 [sku  |-> lineItems.array[index + 1].sku,
                  size |-> lineItems.array[index + 1].variant_title,
                  qty  |-> lineItems.array[index + 1].quantity]])

\* forEach((item, index) => if (item.sku) productBucket[index] = {...});
\* item.sku on a null element raises a TypeError.
mapProductBucket(lineItems) ==
  IF IsAbsent(lineItems)
  THEN Throw(Error("Cannot read properties of undefined (reading 'forEach')"))
  ELSE IF \E p \in 1..Len(lineItems.array) : lineItems.array[p] = NullItem
  THEN Throw(Error("Cannot read properties of null (reading 'sku')"))
  ELSE Return([index \in {j \in 0..(Len(lineItems.array) - 1) : Truthy(lineItems.array[j + 1].sku)} |->
                 [sku  |-> lineItems.array[index + 1].sku,
                  size |-> OrElse(lineItems.array[index + 1].variant_title, "default"),
                  qty  |-> lineItems.array[index + 1].quantity]])

mapShippingAddressRequiresName(address) ==
  IF IsAbsent(address)
  THEN Throw(Error("Shipping address is required"))
  ELSE IF ~Truthy(address.first_name)
  THEN Throw(Error("Shipping first name is required"))
  ELSE Return([s_first_name   |-> OrElse(address.first_name, ""),
               s_last_name    |-> OrElse(address.last_name, ""),
               s_company      |-> OrElse(address.company, ""),
               s_address_1    |-> OrElse(address.address1, ""),
               s_address_2    |-> address.address2,
               s_city         |-> OrElse(address.city, ""),
               s_state        |-> OrElse(address.province, ""),
               s_country_name |-> OrElse(address.country, ""),
               s_zip_code     |-> OrElse(address.zip, ""),
               s_contact_no   |-> OrElse(address.phone, ""),
               s_email        |-> ToLowerCase(address.first_name) \o "@customer.com"])

mapShippingAddress(address) ==
  IF IsAbsent(address)
  THEN Throw(Error("Shipping address is required"))
  ELSE Return([s_first_name   |-> OrElse(address.first_name, ""),
               s_last_name    |-> OrElse(address.last_name, ""),
               s_company      |-> OrElse(address.company, ""),
               s_address_1    |-> OrElse(address.address1, ""),
               s_address_2    |-> address.address2,
               s_city         |-> OrElse(address.city, ""),
               s_state        |-> OrElse(address.province, ""),
               s_country_name |-> OrElse(address.country, ""),
               s_zip_code     |-> OrElse(address.zip, ""),
               s_contact_no   |-> OrElse(address.phone, ""),
               s_email        |-> IF Truthy(address.first_name)
                                  THEN ToLowerCase(address.first_name) \o "@customer.com"
                                  ELSE ""])

mapBillingAddressNoLowerCase(address) ==
  IF IsAbsent(address)
  THEN Throw(Error("Billing address is required"))
  ELSE Return([b_first_name   |-> OrElse(address.first_name, ""),
               b_last_name    |-> OrElse(address.last_name, ""),
               b_company      |-> OrElse(address.company, ""),
               b_address_1    |-> OrElse(address.address1, ""),
               b_address_2    |-> address.address2,
               b_city         |-> OrElse(address.city, ""),
               b_state        |-> OrElse(address.province, ""),
               b_country_name |-> OrElse(address.country, ""),
               b_zip_code     |-> OrElse(address.zip, ""),
               b_contact_no   |-> OrElse(address.phone, ""),
               b_email        |-> IF Truthy(address.first_name)
                                  THEN address.first_name \o "@customer.com"
                                  ELSE ""])

mapBillingAddress(address) ==
  IF IsAbsent(address)
  THEN Throw(Error("Billing address is required"))
  ELSE Return([b_first_name   |-> OrElse(address.first_name, ""),
               b_last_name    |-> OrElse(address.last_name, ""),
               b_company      |-> OrElse(address.company, ""),
               b_address_1    |-> OrElse(address.address1, ""),
               b_address_2    |-> address.address2,
               b_city         |-> OrElse(address.city, ""),
               b_state        |-> OrElse(address.province, ""),
               b_country_name |-> OrElse(address.country, ""),
               b_zip_code     |-> OrElse(address.zip, ""),
               b_contact_no   |-> OrElse(address.phone, ""),
               b_email        |-> IF Truthy(address.first_name)
                                  THEN ToLowerCase(address.first_name) \o "@customer.com"
                                  ELSE ""])

getLogisticMethod(orderData) == "FedEx Ground"

getCustomerEmailCustomerFirst(orderData) ==
  OrElse(IF IsAbsent(orderData.customer) THEN Undefined ELSE orderData.customer.email,
         OrElse(orderData.email, ""))

\* orderData.email || orderData.customer?.email || ''
getCustomerEmail(orderData) ==
  OrElse(orderData.email,
         OrElse(IF IsAbsent(orderData.customer) THEN Undefined ELSE orderData.customer.email,
                ""))

getCustomerPOFromId(orderData) == "PO-SHOPIFY-" \o ToString(orderData.id)

getCustomerPO(orderData) == "PO-SHOPIFY-" \o ToString(orderData.order_number)

\* ------------------------------------------------------ DropshippingService
SubmitTimeoutMs == 30000
GetOrdersTimeoutMs == 30000
TestTimeoutMs == 10000

\* qs.stringify of a flat object: properties whose value is undefined are
\* skipped, numbers are written in decimal, strings are kept.
qsStringify(obj) ==
  [k \in {key \in DOMAIN obj : obj[key].t # "undefined"} |->
     IF obj[k].t = "number" THEN ToString(obj[k].n) ELSE obj[k].s]

\* What the provider (or the network) does with one request.
\* kind: "status" (a response arrived), "timeout", "network".
Reply(kind, status, data) == [kind |-> kind, status |-> status, data |-> data]

\* await axios({...}) with the default validateStatus: a 2xx response
\* resolves, every other status, a timeout and a network failure reject
\* with an AxiosError.
axios(reply, timeoutMs) ==
  CASE reply.kind = "timeout" ->
         Throw(AxiosError("timeout of " \o ToString(timeoutMs) \o "ms exceeded", 0))
    [] reply.kind = "network" ->
         Throw(AxiosError("read ECONNRESET", 0))
    [] reply.kind = "status" /\ reply.status \in 200..299 ->
         Return([status |-> reply.status, data |-> reply.data])
    [] OTHER ->
         Throw(AxiosError("Request failed with status code " \o ToString(reply.status),
                          reply.status))

validateOrderNoItemCheck(orderData) ==
  IF IsAbsent(orderData.shipping_address)
  THEN Throw(Error("Shipping address is required"))
  ELSE IF IsAbsent(orderData.billing_address)
  THEN Throw(Error("Billing address is required"))
  ELSE IF IsAbsent(orderData.line_items)
  THEN Throw(Error("Order must have at least one line item"))
  ELSE Return(TRUE)

validateOrderSameReason(orderData) ==
  IF IsAbsent(orderData.shipping_address)
  THEN Throw(Error("Address is required"))
  ELSE IF IsAbsent(orderData.billing_address)
  THEN Throw(Error("Address is required"))
  ELSE IF IsAbsent(orderData.line_items) \/ Len(orderData.line_items.array) = 0
  THEN Throw(Error("Order must have at least one line item"))
  ELSE Return(TRUE)

validateOrderRequiresSku(orderData) ==
  IF IsAbsent(orderData.shipping_address)
  THEN Throw(Error("Shipping address is required"))
  ELSE IF IsAbsent(orderData.billing_address)
  THEN Throw(Error("Billing address is required"))
  ELSE IF IsAbsent(orderData.line_items) \/ Len(orderData.line_items.array) = 0
  THEN Throw(Error("Order must have at least one line item"))
  ELSE IF \A p \in 1..Len(orderData.line_items.array) :
            /\ orderData.line_items.array[p] # NullItem
            /\ ~Truthy(orderData.line_items.array[p].sku)
  THEN Throw(Error("Order must have at least one line item with a SKU"))
  ELSE Return(TRUE)

\* Validation of submitOrder: the first missing part raises.
validateOrder(orderData) ==
  IF IsAbsent(orderData.shipping_address)
  THEN Throw(Error("Shipping address is required"))
  ELSE IF IsAbsent(orderData.billing_address)
  THEN Throw(Error("Billing address is required"))
  ELSE IF IsAbsent(orderData.line_items) \/ Len(orderData.line_items.array) = 0
  THEN Throw(Error("Order must have at least one line item"))
  ELSE Return(TRUE)

ProductKey(index, field) == "productBucket[" \o ToString(index) \o "][" \o field \o "]"
BucketFields == {"sku", "size", "qty"}

\* Object.entries(productBucket).forEach(...): three scalar keys per entry.
flattenBucket(productBucket) ==
  [k \in {ProductKey(i, f) : i \in DOMAIN productBucket, f \in BucketFields} |->
     LET i == CHOOSE j \in DOMAIN productBucket : \E f \in BucketFields : k = ProductKey(j, f)
     IN  CASE k = ProductKey(i, "sku")  -> JsStr(productBucket[i].sku)
           [] k = ProductKey(i, "size") -> JsStr(productBucket[i].size)
           [] OTHER                     -> JsNum(productBucket[i].qty)]

\* The request object of submitOrder: credentials, email, PO, carrier, both
\* mapped addresses spread in, then the flattened product bucket.
buildRequestData(service, orderData) ==
  LET productBucket   == mapProductBucket(orderData.line_items)
      shippingAddress == mapShippingAddress(orderData.shipping_address)
      billingAddress  == mapBillingAddress(orderData.billing_address)
  IN  IF productBucket.threw THEN productBucket
      ELSE IF shippingAddress.threw THEN shippingAddress
      ELSE IF billingAddress.threw THEN billingAddress
      ELSE Return(
             flattenBucket(productBucket.value)
             @@ [k \in DOMAIN billingAddress.value |-> JsStr(billingAddress.value[k])]
             @@ [k \in DOMAIN shippingAddress.value |-> JsStr(shippingAddress.value[k])]
             @@ [uname       |-> JsStr(service.username),
                 pass        |-> JsStr(service.password),
                 email       |-> JsStr(getCustomerEmail(orderData)),
                 customer_po |-> JsStr(getCustomerPO(orderData)),
                 Logistic    |-> JsStr(getLogisticMethod(orderData))])

\* submitOrder from its entry to the axios call: the completion is a thrown
\* error (handled by the catch block) or the form body to POST.
submitOrderPrepare(service, orderData) ==
  LET valid == validateOrder(orderData)
  IN  IF valid.threw THEN valid
      ELSE LET requestData == buildRequestData(service, orderData)
           IN  IF requestData.threw THEN requestData
               ELSE Return(qsStringify(requestData.value))

submitOrderResultAny2xx(response, orderData) ==
  Return([success |-> response.status \in 200..299,
          message |-> "Order submitted successfully",
          orderId |-> getCustomerPO(orderData)])

\* The return statement after the POST resolved.
submitOrderResult(response, orderData) ==
  Return([success |-> response.status = 200,
          message |-> "Order submitted successfully",
          orderId |-> getCustomerPO(orderData)])

submitOrderCatchRethrow(error) ==
  IF error.isAxios
  THEN Return([success |-> FALSE,
               error   |-> error.message,
               message |-> "API request failed: " \o
                           (IF error.status # 0 THEN ToString(error.status)
                                                ELSE "Network error")])
  ELSE Throw(error)

submitOrderCatchNoError(error) ==
  IF error.isAxios
  THEN Return([success |-> FALSE,
               message |-> "API request failed: " \o
                           (IF error.status # 0 THEN ToString(error.status)
                                                ELSE "Network error")])
  ELSE Return([success |-> FALSE,
               error   |-> IF error.isError THEN error.message ELSE "Unknown error",
               message |-> "Failed to submit order to dropshipping API"])

\* The catch block of submitOrder.
submitOrderCatch(error) ==
  IF error.isAxios
  THEN Return([success |-> FALSE,
               error   |-> error.message,
               message |-> "API request failed: " \o
                           (IF error.status # 0 THEN ToString(error.status)
                                                ELSE "Network error")])
  ELSE Return([success |-> FALSE,
               error   |-> IF error.isError THEN error.message ELSE "Unknown error",
               message |-> "Failed to submit order to dropshipping API"])

\* ---------------------------------------------------------------- getOrders
\* An order_status the XML parser produced as a number instead of a string.
NotAString == "<number>"

\* String.prototype.trim on the joined names of the model's name set.
Trim(s) ==
  CASE s = " " -> ""
    [] s = "Jane " -> "Jane"
    [] s = " Doe" -> "Doe"
    [] OTHER -> s

RECURSIVE JoinTruthy(_)
\* [..].filter(Boolean).join(', ')
JoinTruthy(parts) ==
  IF parts = <<>> THEN ""
  ELSE LET rest == JoinTruthy(Tail(parts))
       IN  IF ~Truthy(Head(parts)) THEN rest
           ELSE IF rest = "" THEN Head(parts)
           ELSE Head(parts) \o ", " \o rest

formatOrderNoTrim(order) ==
  LET billingShipping == IF IsAbsent(order.order_billing_shipping)
                         THEN [s_first_name |-> Undefined, s_last_name |-> Undefined,
                               s_company |-> Undefined, s_email |-> Undefined]
                         ELSE order.order_billing_shipping
      firstName == OrElse(billingShipping.s_first_name, "")
      lastName  == OrElse(billingShipping.s_last_name, "")
  IN  [orderId         |-> OrElse(order.order_number, "N/A"),
       orderDate       |-> OrElse(order.order_date, "<now>"),
       customerName    |-> OrElse(firstName \o " " \o lastName, "N/A"),
       customerEmail   |-> OrElse(billingShipping.s_email, "N/A"),
       status          |-> OrElse(IF order.order_status = Undefined THEN Undefined
                                  ELSE ToLowerCase(order.order_status), "pending"),
       total           |-> OrElse(order.grand_total, "0.00"),
       items           |-> <<>>,
       shippingAddress |-> OrElse(JoinTruthy(<<billingShipping.s_company, firstName, lastName>>),
                                  "N/A"),
       trackingNumber  |-> IF Truthy(order.awbn) THEN order.awbn ELSE Undefined,
       shippedOn       |-> order.shipped_on,
       shippedVia      |-> order.shipped_via,
       paymentStatus   |-> order.payment_status]

formatOrderTrackingSentinel(order) ==
  LET billingShipping == IF IsAbsent(order.order_billing_shipping)
                         THEN [s_first_name |-> Undefined, s_last_name |-> Undefined,
                               s_company |-> Undefined, s_email |-> Undefined]
                         ELSE order.order_billing_shipping
      firstName == OrElse(billingShipping.s_first_name, "")
      lastName  == OrElse(billingShipping.s_last_name, "")
  IN  [orderId         |-> OrElse(order.order_number, "N/A"),
       orderDate       |-> OrElse(order.order_date, "<now>"),
       customerName    |-> OrElse(Trim(firstName \o " " \o lastName), "N/A"),
       customerEmail   |-> OrElse(billingShipping.s_email, "N/A"),
       status          |-> OrElse(IF order.order_status = Undefined THEN Undefined
                                  ELSE ToLowerCase(order.order_status), "pending"),
       total           |-> OrElse(order.grand_total, "0.00"),
       items           |-> <<>>,
       shippingAddress |-> OrElse(JoinTruthy(<<billingShipping.s_company, firstName, lastName>>),
                                  "N/A"),
       trackingNumber  |-> OrElse(order.awbn, "N/A"),
       shippedOn       |-> order.shipped_on,
       shippedVia      |-> order.shipped_via,
       paymentStatus   |-> order.payment_status]

\* The mapping of one order node in formatOrders.
formatOrder(order) ==
  LET billingShipping == IF IsAbsent(order.order_billing_shipping)
                         THEN [s_first_name |-> Undefined, s_last_name |-> Undefined,
                               s_company |-> Undefined, s_email |-> Undefined]
                         ELSE order.order_billing_shipping
      firstName == OrElse(billingShipping.s_first_name, "")
      lastName  == OrElse(billingShipping.s_last_name, "")
  IN  [orderId         |-> OrElse(order.order_number, "N/A"),
       orderDate       |-> OrElse(order.order_date, "<now>"),
       customerName    |-> OrElse(Trim(firstName \o " " \o lastName), "N/A"),
       customerEmail   |-> OrElse(billingShipping.s_email, "N/A"),
       status          |-> OrElse(IF order.order_status = Undefined THEN Undefined
                                  ELSE ToLowerCase(order.order_status), "pending"),
       total           |-> OrElse(order.grand_total, "0.00"),
       items           |-> <<>>,
       shippingAddress |-> OrElse(JoinTruthy(<<billingShipping.s_company, firstName, lastName>>),
                                  "N/A"),
       trackingNumber  |-> IF Truthy(order.awbn) THEN order.awbn ELSE Undefined,
       shippedOn       |-> order.shipped_on,
       shippedVia      |-> order.shipped_via,
       paymentStatus   |-> order.payment_status]

formatOrdersStatusPending(ordersArray) ==
  Return([p \in 1..Len(ordersArray) |->
            IF ordersArray[p].order_status = NotAString
            THEN formatOrder([ordersArray[p] EXCEPT !.order_status = Undefined])
            ELSE formatOrder(ordersArray[p])])

\* ordersArray.map(...): toLowerCase on a non-string status raises.
formatOrders(ordersArray) ==
  IF \E p \in 1..Len(ordersArray) : ordersArray[p].order_status = NotAString
  THEN Throw(Error("order.order_status?.toLowerCase is not a function"))
  ELSE Return([p \in 1..Len(ordersArray) |-> formatOrder(ordersArray[p])])

\* xmlData: [isString, parses, parsed]; parsed is the tree the XML parser
\* returns, parsed.response.order either one node or an array of nodes.
parseOrdersFromXML(xmlData) ==
  IF ~xmlData.isString THEN <<>>
  ELSE IF ~xmlData.parses THEN <<>>
  ELSE IF IsAbsent(xmlData.parsed.response) THEN <<>>
  ELSE IF IsAbsent(xmlData.parsed.response.order) THEN <<>>
  ELSE LET order == xmlData.parsed.response.order
           ordersArray == IF order.isArray THEN order.items ELSE <<order.node>>
           formatted == formatOrders(ordersArray)
       IN  IF formatted.threw THEN <<>> ELSE formatted.value

getOrdersResultFailOnEmpty(response) ==
  Return([success |-> parseOrdersFromXML(response.data) # <<>>,
          orders  |-> parseOrdersFromXML(response.data),
          message |-> "Orders fetched successfully"])

getOrdersResult(response) ==
  Return([success |-> TRUE,
          orders  |-> parseOrdersFromXML(response.data),
          message |-> "Orders fetched successfully"])

getOrdersCatch(error) ==
  IF error.isAxios
  THEN Return([success |-> FALSE,
               error   |-> error.message,
               message |-> "API request failed: " \o
                           (IF error.status # 0 THEN ToString(error.status)
                                                ELSE "Network error")])
  ELSE Return([success |-> FALSE,
               error   |-> IF error.isError THEN error.message ELSE "Unknown error",
               message |-> "Failed to fetch orders from dropshipping API"])

\* The loader of the orders page: awaits getOrders outside any try block and
\* returns orders || [], success, error and message.
ordersLoader(completion) ==
  IF completion.threw
  THEN Throw(completion.error)
  ELSE Return([orders  |-> IF "orders" \in DOMAIN completion.value
                           THEN completion.value.orders ELSE <<>>,
               success |-> completion.value.success,
               error   |-> IF "error" \in DOMAIN completion.value
                           THEN completion.value.error ELSE Undefined,
               message |-> completion.value.message])

\* ----------------------------------------------------------- testConnection
testConnectionResultAny2xx(response) == Return(response.status \in 200..299)

testConnectionResult(response) == Return(response.status = 200)
testConnectionCatch(error) == Return(FALSE)

\* ------------------------------------------------- orders/create webhook
webhookCatchAcknowledge(error) ==
  [status |-> 200,
   body   |-> [error |-> IF error.isError THEN error.message ELSE "Unknown error"]]

\* The catch block of the webhook action.
webhookCatch(error) ==
  [status |-> 500,
   body   |-> [error |-> IF error.isError THEN error.message ELSE "Unknown error"]]

webhookRespondFailOnError(orderData, completion) ==
  IF completion.threw
  THEN [status |-> 500,
        body   |-> [error |-> IF completion.error.isError THEN completion.error.message
                                                           ELSE "Unknown error"]]
  ELSE [status |-> IF completion.value.success THEN 200 ELSE 500,
        body   |-> [received         |-> TRUE,
                    dropship_success |-> completion.value.success,
                    order_id         |-> orderData.order_number]]

webhookRespondWrongId(orderData, completion) ==
  IF completion.threw
  THEN webhookCatch(completion.error)
  ELSE [status |-> 200,
        body   |-> [received         |-> TRUE,
                    dropship_success |-> completion.value.success,
                    order_id         |-> orderData.id]]

\* The acknowledgment built after submitOrder settled; a rejection of the
\* awaited call lands in the catch block.
webhookRespond(orderData, completion) ==
  IF completion.threw
  THEN webhookCatch(completion.error)
  ELSE [status |-> 200,
        body   |-> [received         |-> TRUE,
                    dropship_success |-> completion.value.success,
                    order_id         |-> orderData.order_number]]

\* const orderData = { id: payload.id, ... }
extractOrderData(payload) ==
  [id               |-> payload.id,
   order_number     |-> payload.order_number,
   email            |-> payload.email,
   line_items       |-> payload.line_items,
   shipping_address |-> payload.shipping_address,
   billing_address  |-> payload.billing_address,
   customer         |-> payload.customer]

\* constructor(): process.env values with their defaults
DropshippingService(env) ==
  [apiUrl   |-> OrElse(env.DROPSHIP_API_URL,
                       "https://www.quintessencejewelry.com/qjcapis/makebulkOrders.xml"),
   username |-> OrElse(env.DROPSHIP_API_USERNAME, ""),
   password |-> OrElse(env.DROPSHIP_API_PASSWORD, "")]

\* ------------------------------------------------------------------ inputs
Environments ==
  {[DROPSHIP_API_URL |-> Undefined, DROPSHIP_API_USERNAME |-> Undefined,
    DROPSHIP_API_PASSWORD |-> Undefined],
   [DROPSHIP_API_URL |-> Undefined, DROPSHIP_API_USERNAME |-> "shop",
    DROPSHIP_API_PASSWORD |-> "secret"]}

FullAddress ==
  [first_name |-> "Jane", last_name |-> "Doe", company |-> "Acme",
   address1 |-> "1 Main St", address2 |-> "Apt 4B", city |-> "Springfield",
   province |-> "IL", country |-> "United States", zip |-> "62701",
   phone |-> "555-0123"]
\* no first name, no company, no second address line
MinimalAddress ==
  [first_name |-> "", last_name |-> "Doe", company |-> Undefined,
   address1 |-> "1 Main St", address2 |-> Undefined, city |-> "Springfield",
   province |-> "IL", country |-> "United States", zip |-> "62701",
   phone |-> "555-0123"]

ItemValues ==
  [sku : {Undefined, "", "ABC"}, variant_title : {Undefined, "Medium"}, quantity : {1, 2}]
ItemA == [sku |-> "ABC", variant_title |-> "Medium", quantity |-> 2]
ItemNoSku == [sku |-> Undefined, variant_title |-> "Medium", quantity |-> 1]

BaseOrder ==
  [id |-> 1, order_number |-> 1001, email |-> "jane@example.com",
   line_items |-> Arr(<<ItemA>>), shipping_address |-> FullAddress,
   billing_address |-> FullAddress, customer |-> [email |-> "jane@example.com"]]

\* Payloads of the order events: the base order and its one-step variations.
Payloads ==
  {BaseOrder,
   [BaseOrder EXCEPT !.id = 2, !.order_number = 1002],
   [BaseOrder EXCEPT !.shipping_address = NoObject],
   [BaseOrder EXCEPT !.billing_address = NoObject],
   [BaseOrder EXCEPT !.line_items = NoObject],
   [BaseOrder EXCEPT !.line_items = Arr(<<>>)],
   [BaseOrder EXCEPT !.line_items = Arr(<<ItemNoSku, ItemA>>)],
   [BaseOrder EXCEPT !.line_items = Arr(<<ItemNoSku>>)],
   [BaseOrder EXCEPT !.line_items = Arr(<<ItemA, NullItem>>)],
   [BaseOrder EXCEPT !.shipping_address = MinimalAddress,
                     !.billing_address = MinimalAddress,
                     !.email = Undefined]}

\* An order event as the platform hands it over: authenticate.webhook either
\* throws or yields the payload (which may be null).
Events ==
  {[auth |-> "throws", payload |-> NoObject]}
  \cup {[auth |-> "ok", payload |-> pl] : pl \in Payloads \cup {NoObject}}

\* Orders of the mapper specification.
RECURSIVE SeqsUpTo(_, _)
SeqsUpTo(S, n) ==
  IF n = 0 THEN {<<>>}
  ELSE LET shorter == SeqsUpTo(S, n - 1)
       IN  shorter \cup {Append(q, x) : q \in {r \in shorter : Len(r) = n - 1}, x \in S}

\* an upper-case first name
ShoutAddress == [FullAddress EXCEPT !.first_name = "JOHN", !.company = ""]
AddressValues == {NoObject, FullAddress, MinimalAddress, ShoutAddress}

\* order-level email and embedded customer record
EmailValues == {Undefined, "", "jane@example.com"}
CustomerValues ==
  {NoObject, [email |-> Undefined], [email |-> ""], [email |-> "cust@example.com"]}

MapperOrders ==
  {[BaseOrder EXCEPT !.line_items = li, !.shipping_address = sa, !.billing_address = ba] :
     li \in {Arr(q) : q \in SeqsUpTo(ItemValues \cup {NullItem}, MaxItems)} \cup {NoObject},
     sa \in {NoObject, FullAddress},
     ba \in {NoObject, MinimalAddress}}
  \cup
  {[BaseOrder EXCEPT !.shipping_address = sa, !.billing_address = ba] :
     sa \in AddressValues, ba \in AddressValues}
  \cup
  {[BaseOrder EXCEPT !.email = e, !.customer = c, !.shipping_address = sa,
                     !.billing_address = sa] :
     e \in EmailValues, c \in CustomerValues, sa \in AddressValues \ {NoObject}}

OrderNode ==
  [order_number |-> "QJ-1", order_date |-> "2024-01-01", order_status |-> "Order Shipped",
   grand_total |-> "10.00", awbn |-> "1Z999", shipped_on |-> "2024-01-02",
   shipped_via |-> "FedEx", payment_status |-> "paid",
   order_billing_shipping |-> [s_first_name |-> "Jane", s_last_name |-> "Doe",
                               s_company |-> "Acme", s_email |-> "jane@example.com"]]
\* Order nodes over present, empty and missing names and waybill numbers.
NameNodes ==
  {[OrderNode EXCEPT !.awbn = a,
                     !.order_billing_shipping = [@ EXCEPT !.s_first_name = f, !.s_last_name = l]] :
     f \in {Undefined, "", "Jane"}, l \in {Undefined, "", "Doe"},
     a \in {Undefined, "", "1Z999"}}
  \cup {[OrderNode EXCEPT !.awbn = a, !.order_billing_shipping = NoObject] :
          a \in {Undefined, "", "1Z999"}}
\* The arguments of formatOrders: arrays of one or two order nodes.
FormatInputs ==
  {[ordersArray |-> <<n>>] : n \in NameNodes}
  \cup {[ordersArray |-> <<n1, n2>>] : n1 \in NameNodes, n2 \in NameNodes}
XmlDoc(response) == [isString |-> TRUE, parses |-> TRUE, parsed |-> [response |-> response]]
XmlDocs ==
  {[isString |-> FALSE, parses |-> FALSE, parsed |-> NoObject],
   [isString |-> TRUE, parses |-> FALSE, parsed |-> NoObject],
   XmlDoc(NoObject),
   XmlDoc([order |-> NoObject]),
   XmlDoc([order |-> [isArray |-> FALSE, node |-> OrderNode]]),
   XmlDoc([order |-> [isArray |-> TRUE,
                      items |-> <<OrderNode, [OrderNode EXCEPT !.order_number = "QJ-2",
                                                               !.awbn = Undefined]>>]]),
   XmlDoc([order |-> [isArray |-> TRUE,
                      items |-> <<OrderNode, [OrderNode EXCEPT !.order_status = NotAString]>>]])}

\* Provider behaviours; the submission endpoint's body is an opaque string.
SubmitReplies ==
  {Reply("status", 200, "<response>ok</response>"),
   Reply("status", 200, "<response>error</response>"),
   Reply("status", 201, ""),
   Reply("status", 500, ""),
   Reply("timeout", 0, ""),
   Reply("network", 0, "")}
GetOrdersReplies ==
  {Reply("status", 200, d) : d \in XmlDocs}
  \cup {Reply("status", 500, NoObject), Reply("timeout", 0, NoObject)}

\* ------------------------------------------------------------------- state
VARIABLES
  service,    \* the singleton DropshippingService
  pc,         \* position of each invocation
  kind,       \* what each invocation runs
  event,      \* the order event a webhook invocation received
  orderData,  \* the order the webhook handler passes to submitOrder
  request,    \* the form body of the HTTP request the invocation issued
  httpCalls,  \* number of HTTP requests the invocation issued
  reply,      \* what came back for the request
  result,     \* completion of the service call
  response,   \* the handler's response to the event source
  mOp,        \* mapper specification: the function applied
  mIn,        \* mapper specification: its input order
  mOut        \* mapper specification: its completion

vars == <<service, pc, kind, event, orderData, request, httpCalls, reply, result,
          response, mOp, mIn, mOut>>
handlerVars == <<service, pc, kind, event, orderData, request, httpCalls, reply,
                 result, response>>
mapperVars == <<mOp, mIn, mOut>>

Invocations == 1..NumInvocations

Idle ==
  /\ pc = [i \in Invocations |-> "idle"]
  /\ kind = [i \in Invocations |-> "none"]
  /\ event = [i \in Invocations |-> NoValue]
  /\ orderData = [i \in Invocations |-> NoValue]
  /\ request = [i \in Invocations |-> NoValue]
  /\ httpCalls = [i \in Invocations |-> 0]
  /\ reply = [i \in Invocations |-> NoValue]
  /\ result = [i \in Invocations |-> NoValue]
  /\ response = [i \in Invocations |-> NoValue]

Init ==
  /\ service \in {DropshippingService(env) : env \in Environments}
  /\ Idle
  /\ mOp = "none" /\ mIn = NoValue /\ mOut = NoValue

WebhookReceiveDeduplicates(i, ev) ==
  /\ pc[i] = "idle"
  /\ kind' = [kind EXCEPT ![i] = "webhook"]
  /\ event' = [event EXCEPT ![i] = ev]
  /\ reply' = reply
  /\ IF ev.auth = "throws"
     THEN /\ response' = [response EXCEPT ![i] = webhookCatch(NonError)]
          /\ pc' = [pc EXCEPT ![i] = "done"]
          /\ UNCHANGED <<orderData, request, httpCalls, result>>
     ELSE IF IsAbsent(ev.payload)
     THEN /\ response' = [response EXCEPT ![i] =
                 webhookCatch(Error("Cannot read properties of null (reading 'id')"))]
          /\ pc' = [pc EXCEPT ![i] = "done"]
          /\ UNCHANGED <<orderData, request, httpCalls, result>>
     ELSE LET od == extractOrderData(ev.payload)
              prepared == submitOrderPrepare(service, od)
          IN  /\ orderData' = [orderData EXCEPT ![i] = od]
              /\ IF prepared.threw
                 THEN LET completion == submitOrderCatch(prepared.error)
                      IN  /\ result' = [result EXCEPT ![i] = completion]
                          /\ response' = [response EXCEPT ![i] = webhookRespond(od, completion)]
                          /\ pc' = [pc EXCEPT ![i] = "done"]
                          /\ UNCHANGED <<request, httpCalls>>
                 ELSE IF \E j \in Invocations : event[j] = ev /\ request[j] # NoValue
                 THEN LET completion == Return([success |-> TRUE,
                                                message |-> "Order already submitted",
                                                orderId |-> getCustomerPO(od)])
                      IN  /\ result' = [result EXCEPT ![i] = completion]
                          /\ response' = [response EXCEPT ![i] = webhookRespond(od, completion)]
                          /\ pc' = [pc EXCEPT ![i] = "done"]
                          /\ UNCHANGED <<request, httpCalls>>
                 ELSE /\ request' = [request EXCEPT ![i] = prepared.value]
                      /\ httpCalls' = [httpCalls EXCEPT ![i] = @ + 1]
                      /\ pc' = [pc EXCEPT ![i] = "awaitSubmit"]
                      /\ UNCHANGED <<result, response>>
  /\ UNCHANGED <<service, mapperVars>>

\* The webhook action from the event's arrival to its first pending HTTP
\* call, or to its response when no call is made.
WebhookReceive(i, ev) ==
  /\ pc[i] = "idle"
  /\ kind' = [kind EXCEPT ![i] = "webhook"]
  /\ event' = [event EXCEPT ![i] = ev]
  /\ reply' = reply
  /\ IF ev.auth = "throws"
     THEN /\ response' = [response EXCEPT ![i] = webhookCatch(NonError)]
          /\ pc' = [pc EXCEPT ![i] = "done"]
          /\ UNCHANGED <<orderData, request, httpCalls, result>>
     ELSE IF IsAbsent(ev.payload)
     THEN /\ response' = [response EXCEPT ![i] =
                 webhookCatch(Error("Cannot read properties of null (reading 'id')"))]
          /\ pc' = [pc EXCEPT ![i] = "done"]
          /\ UNCHANGED <<orderData, request, httpCalls, result>>
     ELSE LET od == extractOrderData(ev.payload)
              prepared == submitOrderPrepare(service, od)
          IN  /\ orderData' = [orderData EXCEPT ![i] = od]
              /\ IF prepared.threw
                 THEN LET completion == submitOrderCatch(prepared.error)
                      IN  /\ result' = [result EXCEPT ![i] = completion]
                          /\ response' = [response EXCEPT ![i] = webhookRespond(od, completion)]
                          /\ pc' = [pc EXCEPT ![i] = "done"]
                          /\ UNCHANGED <<request, httpCalls>>
                 ELSE /\ request' = [request EXCEPT ![i] = prepared.value]
                      /\ httpCalls' = [httpCalls EXCEPT ![i] = @ + 1]
                      /\ pc' = [pc EXCEPT ![i] = "awaitSubmit"]
                      /\ UNCHANGED <<result, response>>
  /\ UNCHANGED <<service, mapperVars>>

SubmitSettlesSharedOrder(i, rep) ==
  /\ pc[i] = "awaitSubmit"
  /\ LET settled == axios(rep, SubmitTimeoutMs)
         shared == orderData[CHOOSE j \in Invocations : orderData[j] # NoValue]
         completion == IF settled.threw
                       THEN submitOrderCatch(settled.error)
                       ELSE submitOrderResult(settled.value, shared)
     IN  /\ reply' = [reply EXCEPT ![i] = rep]
         /\ result' = [result EXCEPT ![i] = completion]
         /\ response' = [response EXCEPT ![i] = webhookRespond(shared, completion)]
  /\ pc' = [pc EXCEPT ![i] = "done"]
  /\ UNCHANGED <<service, kind, event, orderData, request, httpCalls, mapperVars>>

SubmitSettlesClearsItems(i, rep) ==
  /\ pc[i] = "awaitSubmit"
  /\ LET settled == axios(rep, SubmitTimeoutMs)
         completion == IF settled.threw
                       THEN submitOrderCatch(settled.error)
                       ELSE submitOrderResult(settled.value, orderData[i])
     IN  /\ reply' = [reply EXCEPT ![i] = rep]
         /\ result' = [result EXCEPT ![i] = completion]
         /\ response' = [response EXCEPT ![i] = webhookRespond(orderData[i], completion)]
  /\ orderData' = [orderData EXCEPT ![i].line_items = Arr(<<>>)]
  /\ pc' = [pc EXCEPT ![i] = "done"]
  /\ UNCHANGED <<service, kind, event, request, httpCalls, mapperVars>>

SubmitSettlesStuck(i, rep) ==
  /\ pc[i] = "awaitSubmit"
  /\ LET settled == axios(rep, SubmitTimeoutMs)
     IN  IF settled.threw
         THEN /\ pc' = [pc EXCEPT ![i] = "stuck"]
              /\ UNCHANGED <<result, response>>
         ELSE LET completion == submitOrderResult(settled.value, orderData[i])
              IN  /\ result' = [result EXCEPT ![i] = completion]
                  /\ response' = [response EXCEPT ![i] = webhookRespond(orderData[i], completion)]
                  /\ pc' = [pc EXCEPT ![i] = "done"]
  /\ reply' = [reply EXCEPT ![i] = rep]
  /\ UNCHANGED <<service, kind, event, orderData, request, httpCalls, mapperVars>>

\* The POST of submitOrder settles: the rest of submitOrder, then the rest
\* of the webhook action.
SubmitSettles(i, rep) ==
  /\ pc[i] = "awaitSubmit"
  /\ LET settled == axios(rep, SubmitTimeoutMs)
         completion == IF settled.threw
                       THEN submitOrderCatch(settled.error)
                       ELSE submitOrderResult(settled.value, orderData[i])
     IN  /\ reply' = [reply EXCEPT ![i] = rep]
         /\ result' = [result EXCEPT ![i] = completion]
         /\ response' = [response EXCEPT ![i] = webhookRespond(orderData[i], completion)]
  /\ pc' = [pc EXCEPT ![i] = "done"]
  /\ UNCHANGED <<service, kind, event, orderData, request, httpCalls, mapperVars>>

\* getOrders up to its POST: credentials only.
GetOrdersCall(i) ==
  /\ pc[i] = "idle"
  /\ kind' = [kind EXCEPT ![i] = "getOrders"]
  /\ request' = [request EXCEPT ![i] =
        qsStringify([uname |-> JsStr(service.username), pass |-> JsStr(service.password)])]
  /\ httpCalls' = [httpCalls EXCEPT ![i] = @ + 1]
  /\ pc' = [pc EXCEPT ![i] = "awaitGetOrders"]
  /\ UNCHANGED <<service, event, orderData, reply, result, response, mapperVars>>

GetOrdersSettlesRetry(i, rep) ==
  /\ pc[i] = "awaitGetOrders"
  /\ LET settled == axios(rep, GetOrdersTimeoutMs)
     IN  IF settled.threw /\ httpCalls[i] < 2
         THEN /\ httpCalls' = [httpCalls EXCEPT ![i] = @ + 1]
              /\ UNCHANGED <<result, pc>>
         ELSE /\ result' = [result EXCEPT ![i] =
                      IF settled.threw THEN getOrdersCatch(settled.error)
                                       ELSE getOrdersResult(settled.value)]
              /\ pc' = [pc EXCEPT ![i] = "done"]
              /\ UNCHANGED httpCalls
  /\ reply' = [reply EXCEPT ![i] = rep]
  /\ response' = [response EXCEPT ![i] =
        ordersLoader(IF axios(rep, GetOrdersTimeoutMs).threw
                     THEN getOrdersCatch(axios(rep, GetOrdersTimeoutMs).error)
                     ELSE getOrdersResult(axios(rep, GetOrdersTimeoutMs).value))]
  /\ UNCHANGED <<service, kind, event, orderData, request, mapperVars>>

\* The POST of getOrders settles: the rest of getOrders, then the loader's
\* return value.
GetOrdersSettles(i, rep) ==
  /\ pc[i] = "awaitGetOrders"
  /\ LET settled == axios(rep, GetOrdersTimeoutMs)
         completion == IF settled.threw THEN getOrdersCatch(settled.error)
                                        ELSE getOrdersResult(settled.value)
     IN  /\ result' = [result EXCEPT ![i] = completion]
         /\ response' = [response EXCEPT ![i] = ordersLoader(completion)]
  /\ reply' = [reply EXCEPT ![i] = rep]
  /\ pc' = [pc EXCEPT ![i] = "done"]
  /\ UNCHANGED <<service, kind, event, orderData, request, httpCalls, mapperVars>>

\* testConnection up to its POST: credentials only.
TestConnectionCall(i) ==
  /\ pc[i] = "idle"
  /\ kind' = [kind EXCEPT ![i] = "testConnection"]
  /\ request' = [request EXCEPT ![i] =
        qsStringify([uname |-> JsStr(service.username), pass |-> JsStr(service.password)])]
  /\ httpCalls' = [httpCalls EXCEPT ![i] = @ + 1]
  /\ pc' = [pc EXCEPT ![i] = "awaitTest"]
  /\ UNCHANGED <<service, event, orderData, reply, result, response, mapperVars>>

TestConnectionSettles(i, rep) ==
  /\ pc[i] = "awaitTest"
  /\ LET settled == axios(rep, TestTimeoutMs)
     IN  result' = [result EXCEPT ![i] =
                      IF settled.threw THEN testConnectionCatch(settled.error)
                                       ELSE testConnectionResult(settled.value)]
  /\ reply' = [reply EXCEPT ![i] = rep]
  /\ pc' = [pc EXCEPT ![i] = "done"]
  /\ UNCHANGED <<service, kind, event, orderData, request, httpCalls, response, mapperVars>>

Next ==
  \E i \in Invocations :
    \/ \E ev \in Events : WebhookReceive(i, ev)
    \/ \E rep \in SubmitReplies : SubmitSettles(i, rep)
    \/ GetOrdersCall(i)
    \/ \E rep \in GetOrdersReplies : GetOrdersSettles(i, rep)
    \/ TestConnectionCall(i)
    \/ \E rep \in SubmitReplies : TestConnectionSettles(i, rep)

Spec == Init /\ [][Next]_vars

\* Every pending POST of submitOrder settles: axios resolves or rejects at
\* the latest when its 30 second timeout expires.
SpecLive ==
  /\ Spec
  /\ \A i \in Invocations : WF_vars(\E rep \in SubmitReplies : SubmitSettles(i, rep))

\* ------------------------------------------------ mapper specification
\* The input is an order (of the mapper functions and submitOrder).
IsOrder(in) == "line_items" \in DOMAIN in

InitMapper ==
  /\ service \in {DropshippingService(env) : env \in Environments}
  /\ Idle
  /\ mOp = "none" /\ mIn \in MapperOrders \cup FormatInputs /\ mOut = NoValue

CallMapProductBucket ==
  /\ mOp = "none" /\ IsOrder(mIn)
  /\ mOp' = "mapProductBucket"
  /\ mOut' = mapProductBucket(mIn.line_items)
  /\ UNCHANGED <<mIn, handlerVars>>

\* submitOrder from its entry to the POST it would issue
CallSubmitOrderPrepare ==
  /\ mOp = "none" /\ IsOrder(mIn)
  /\ mOp' = "submitOrderPrepare"
  /\ mOut' = submitOrderPrepare(service, mIn)
  /\ UNCHANGED <<mIn, handlerVars>>

CallMapShippingAddress ==
  /\ mOp = "none" /\ IsOrder(mIn)
  /\ mOp' = "mapShippingAddress"
  /\ mOut' = mapShippingAddress(mIn.shipping_address)
  /\ UNCHANGED <<mIn, handlerVars>>

CallMapBillingAddress ==
  /\ mOp = "none" /\ IsOrder(mIn)
  /\ mOp' = "mapBillingAddress"
  /\ mOut' = mapBillingAddress(mIn.billing_address)
  /\ UNCHANGED <<mIn, handlerVars>>

CallGetCustomerEmail ==
  /\ mOp = "none" /\ IsOrder(mIn)
  /\ mOp' = "getCustomerEmail"
  /\ mOut' = Return(getCustomerEmail(mIn))
  /\ UNCHANGED <<mIn, handlerVars>>

CallFormatOrders ==
  /\ mOp = "none" /\ ~IsOrder(mIn)
  /\ mOp' = "formatOrders"
  /\ mOut' = formatOrders(mIn.ordersArray)
  /\ UNCHANGED <<mIn, handlerVars>>

NextMapper ==
  \/ CallMapProductBucket
  \/ CallSubmitOrderPrepare
  \/ CallMapShippingAddress
  \/ CallMapBillingAddress
  \/ CallGetCustomerEmail
  \/ CallFormatOrders

SpecMapper == InitMapper /\ [][NextMapper]_vars

\* =============================================================== properties
\* A webhook invocation that reached submitOrder and has its response.
SubmitDone(i) == kind[i] = "webhook" /\ pc[i] = "done" /\ orderData[i] # NoValue
\* The order fails one of the three validations of submitOrder.
Invalid(od) ==
  \/ IsAbsent(od.shipping_address)
  \/ IsAbsent(od.billing_address)
  \/ IsAbsent(od.line_items)
  \/ od.line_items.array = <<>>
\* What came back for the POST counts as a transport failure.
TransportFailure(rep) ==
  \/ rep.kind \in {"timeout", "network"}
  \/ rep.kind = "status" /\ (rep.status < 200 \/ rep.status > 299)
\* A Field Mapper function raises on this (valid) order: a null line item.
MapperRaises(od) ==
  /\ ~Invalid(od)
  /\ \E p \in 1..Len(od.line_items.array) : od.line_items.array[p] = NullItem
\* The purchase-order ids of the order numbers in use.
PurchaseOrderOf(orderNumber) ==
  CASE orderNumber = 1001 -> "PO-SHOPIFY-1001"
    [] orderNumber = 1002 -> "PO-SHOPIFY-1002"
    [] OTHER -> "?"

\* C1: for every order and every provider behaviour, a call of submitOrder
\* settles with one Outcome value (a record with a boolean success flag) and
\* never with an exception; no Outcome exists while the POST is pending.
C1_SubmitOrderNeverThrows ==
  \A i \in Invocations :
    /\ SubmitDone(i) =>
         /\ result[i] # NoValue
         /\ ~result[i].threw
         /\ "success" \in DOMAIN result[i].value
         /\ result[i].value.success \in BOOLEAN
    /\ pc[i] = "awaitSubmit" => result[i] = NoValue

\* C1 witness: a valid order whose mapping raises, and a timed-out POST,
\* both settled as Outcomes.
C1_Witness ==
  \E i, j \in Invocations :
    /\ SubmitDone(i) /\ MapperRaises(orderData[i]) /\ ~result[i].threw
    /\ SubmitDone(j) /\ reply[j] # NoValue /\ reply[j].kind = "timeout" /\ ~result[j].threw

\* C2: an order without shipping address, without billing address or with
\* missing or empty line items gets a failed Outcome, and the call issues no
\* HTTP request.
C2_InvalidOrderNoRequest ==
  \A i \in Invocations :
    (kind[i] = "webhook" /\ orderData[i] # NoValue /\ Invalid(orderData[i])) =>
      /\ pc[i] = "done"
      /\ ~result[i].threw
      /\ result[i].value.success = FALSE
      /\ httpCalls[i] = 0
      /\ request[i] = NoValue

C2_Witness ==
  \E i \in Invocations :
    /\ SubmitDone(i)
    /\ ~IsAbsent(orderData[i].line_items) /\ orderData[i].line_items.array = <<>>
    /\ result[i].value.success = FALSE /\ httpCalls[i] = 0

\* C3: success is true exactly when the order passed validation, the POST
\* was made and answered with status 200, whatever the body; the orderId is
\* then 'PO-SHOPIFY-' followed by the order number.
C3_SuccessIffStatus200 ==
  \A i \in Invocations :
    SubmitDone(i) =>
      /\ ~result[i].threw
      /\ result[i].value.success <=>
           /\ ~Invalid(orderData[i])
           /\ httpCalls[i] = 1
           /\ reply[i] # NoValue
           /\ reply[i].kind = "status" /\ reply[i].status = 200
      /\ result[i].value.success =>
           /\ "orderId" \in DOMAIN result[i].value
           /\ result[i].value.orderId = PurchaseOrderOf(orderData[i].order_number)

C3_Witness ==
  \E i \in Invocations :
    /\ SubmitDone(i)
    /\ reply[i] # NoValue /\ reply[i].status = 200
    /\ reply[i].data = "<response>error</response>"
    /\ result[i].value.success
    /\ result[i].value.orderId = "PO-SHOPIFY-1002"

\* C4: a POST that fails in transport (timeout, connection reset, non-2xx
\* status) gives a failed Outcome whose error field holds the transport
\* error message.
C4_TransportFailureOutcome ==
  \A i \in Invocations :
    (SubmitDone(i) /\ reply[i] # NoValue /\ TransportFailure(reply[i])) =>
      /\ ~result[i].threw
      /\ result[i].value.success = FALSE
      /\ "error" \in DOMAIN result[i].value
      /\ result[i].value.error =
           CASE reply[i].kind = "timeout" -> "timeout of 30000ms exceeded"
             [] reply[i].kind = "network" -> "read ECONNRESET"
             [] OTHER -> "Request failed with status code 500"

C4_Witness ==
  \E i \in Invocations :
    /\ SubmitDone(i) /\ reply[i] # NoValue
    /\ reply[i].kind = "status" /\ reply[i].status = 500
    /\ result[i].value.error = "Request failed with status code 500"

\* C5: acknowledged-failure: when submitOrder returns a failed Outcome the
\* handler still answers HTTP 200 with received=true, dropship_success=false.
C5_AcknowledgedFailure ==
  \A i \in Invocations :
    (SubmitDone(i) /\ ~result[i].threw /\ ~result[i].value.success) =>
      /\ response[i].status = 200
      /\ response[i].body.received = TRUE
      /\ response[i].body.dropship_success = FALSE

C5_Witness ==
  \E i \in Invocations :
    /\ SubmitDone(i) /\ reply[i] # NoValue /\ reply[i].kind = "network"
    /\ ~result[i].value.success
    /\ response[i].status = 200 /\ response[i].body.dropship_success = FALSE

\* C6 as stated: a malformed (null) payload or a Field Mapper exception ends
\* in processing-error, HTTP 500.
C6_MapperExceptionIs500 ==
  \A i \in Invocations :
    (kind[i] = "webhook" /\ pc[i] = "done" /\ event[i].auth = "ok"
       /\ (IsAbsent(event[i].payload) \/ MapperRaises(event[i].payload))) =>
      response[i].status = 500

\* C6 amended: the handler answers HTTP 500 exactly when it raises outside
\* submitOrder, that is when authentication throws or the payload is null; a
\* Field Mapper exception is caught inside submitOrder and ends in
\* acknowledged-failure (HTTP 200, dropship_success=false).
C6_ProcessingError ==
  \A i \in Invocations :
    (kind[i] = "webhook" /\ pc[i] = "done") =>
      /\ response[i].status = 500 <=>
           (event[i].auth = "throws" \/ IsAbsent(event[i].payload))
      /\ (event[i].auth = "ok" /\ ~IsAbsent(event[i].payload)
            /\ MapperRaises(event[i].payload)) =>
           /\ response[i].status = 200
           /\ response[i].body.dropship_success = FALSE

C6_Witness ==
  \E i, j \in Invocations :
    /\ kind[i] = "webhook" /\ pc[i] = "done" /\ event[i].auth = "ok"
    /\ IsAbsent(event[i].payload) /\ response[i].status = 500
    /\ kind[j] = "webhook" /\ pc[j] = "done" /\ event[j].auth = "ok"
    /\ ~IsAbsent(event[j].payload) /\ MapperRaises(event[j].payload)
    /\ response[j].status = 200

\* ---- mapper specification
\* mapProductBucket was applied to a line-item array and returned a bucket.
BucketReturned == mOp = "mapProductBucket" /\ ~mOut.threw
\* 1-based positions of the items that carry a non-empty SKU.
SkuPositions(lineItems) ==
  {p \in 1..Len(lineItems.array) : Truthy(lineItems.array[p].sku)}

\* C7 as stated: the keys of the bucket are exactly 0..k-1, k the number of
\* SKU-bearing items (the position in the filtered sequence, no gaps).
C7_DenseBucketIndices ==
  BucketReturned =>
    DOMAIN mOut.value = 0..(Cardinality(SkuPositions(mIn.line_items)) - 1)

\* C8: the bucket has as many entries as there are items with a non-empty
\* SKU, and every entry is the entry of such an item.
C8_BucketOnlySkuItems ==
  BucketReturned =>
    /\ Cardinality(DOMAIN mOut.value) = Cardinality(SkuPositions(mIn.line_items))
    /\ \A index \in DOMAIN mOut.value :
         /\ index + 1 \in SkuPositions(mIn.line_items)
         /\ mOut.value[index].sku = mIn.line_items.array[index + 1].sku

C8_Witness ==
  /\ BucketReturned
  /\ Len(mIn.line_items.array) = 3
  /\ Cardinality(SkuPositions(mIn.line_items)) = 1
  /\ Cardinality(DOMAIN mOut.value) = 1

\* The keys of the form body that do not belong to the product bucket.
FixedFormKeys ==
  {"uname", "pass", "email", "customer_po", "Logistic",
   "s_first_name", "s_last_name", "s_company", "s_address_1", "s_address_2",
   "s_city", "s_state", "s_country_name", "s_zip_code", "s_contact_no", "s_email",
   "b_first_name", "b_last_name", "b_company", "b_address_1", "b_address_2",
   "b_city", "b_state", "b_country_name", "b_zip_code", "b_contact_no", "b_email"}
Decimal(n) == CASE n = 1 -> "1" [] n = 2 -> "2" [] OTHER -> "?"
\* submitOrder got as far as its POST: mOut.value is the form body.
BodyBuilt == mOp = "submitOrderPrepare" /\ ~mOut.threw

\* C9: the form body holds, for each SKU-bearing item (bucket index: its
\* position in line_items, from 0), exactly the keys productBucket[i][sku],
\* [size] and [qty] with the SKU, the variant label or 'default', and the
\* quantity; it holds no productBucket key of a SKU-less item.
C9_FormBodyProductKeys ==
  BodyBuilt =>
    /\ \A p \in SkuPositions(mIn.line_items) :
         LET item == mIn.line_items.array[p]
         IN  /\ {ProductKey(p - 1, f) : f \in BucketFields} \subseteq DOMAIN mOut.value
             /\ mOut.value[ProductKey(p - 1, "sku")] = item.sku
             /\ mOut.value[ProductKey(p - 1, "size")] =
                  (IF item.variant_title \in {Undefined, ""} THEN "default"
                                                             ELSE item.variant_title)
             /\ mOut.value[ProductKey(p - 1, "qty")] = Decimal(item.quantity)
    /\ DOMAIN mOut.value \ FixedFormKeys =
         {ProductKey(p - 1, f) : p \in SkuPositions(mIn.line_items), f \in BucketFields}

C9_Witness ==
  /\ BodyBuilt
  /\ Len(mIn.line_items.array) = 2
  /\ SkuPositions(mIn.line_items) = {2}
  /\ mIn.line_items.array[2].variant_title = Undefined
  /\ mOut.value["productBucket[1][size]"] = "default"
  /\ mOut.value["productBucket[1][qty]"] = "2"
  /\ "productBucket[0][sku]" \notin DOMAIN mOut.value

\* ---- service specification
\* The service call of the invocation ended in its failure result.
FailureResult(i) ==
  /\ result[i] # NoValue
  /\ ~result[i].threw
  /\ IF kind[i] = "testConnection" THEN result[i].value = FALSE
                                   ELSE result[i].value.success = FALSE

\* C10: no automatic retry: a call of submitOrder, getOrders or
\* testConnection issues at most one HTTP request, and once that request
\* failed or timed out the call has resolved to its failure result with that
\* single request.
C10_NoRetry ==
  \A i \in Invocations :
    /\ httpCalls[i] <= 1
    /\ (reply[i] # NoValue /\ TransportFailure(reply[i])) =>
         /\ pc[i] = "done"
         /\ httpCalls[i] = 1
         /\ FailureResult(i)

C10_Witness ==
  \E i, j \in Invocations :
    /\ kind[i] = "getOrders" /\ pc[i] = "done" /\ reply[i].kind = "timeout"
    /\ httpCalls[i] = 1 /\ FailureResult(i)
    /\ kind[j] = "webhook" /\ pc[j] = "done" /\ reply[j] # NoValue
    /\ reply[j].status = 500 /\ httpCalls[j] = 1 /\ FailureResult(j)

\* ---- retrieval
\* A getOrders invocation whose loader has returned.
GetOrdersDone(i) == kind[i] = "getOrders" /\ pc[i] = "done"
\* A 2xx response whose body is not the expected XML document: not a string,
\* rejected by the parser, or without a response element.
ParseFailure(rep) ==
  /\ rep.kind = "status" /\ rep.status \in 200..299
  /\ \/ ~rep.data.isString
     \/ ~rep.data.parses
     \/ IsAbsent(rep.data.parsed.response)

\* C11 as stated: after a transport failure or an unparseable response
\* getOrders does not throw and the result is failed: success=false with an
\* empty order list (as the loader returns it).
C11_FailedFetchReported ==
  \A i \in Invocations :
    (GetOrdersDone(i) /\ (TransportFailure(reply[i]) \/ ParseFailure(reply[i]))) =>
      /\ ~result[i].threw
      /\ ~response[i].threw
      /\ response[i].value.success = FALSE
      /\ response[i].value.orders = <<>>

\* A 2xx response with a well-formed document that has a response element.
WellFormed(rep) ==
  /\ rep.kind = "status" /\ rep.status \in 200..299
  /\ rep.data.isString /\ rep.data.parses
  /\ ~IsAbsent(rep.data.parsed.response)
\* The order nodes of a well-formed document, in document order.
OrderNodes(rep) ==
  LET order == rep.data.parsed.response.order
  IN  IF IsAbsent(order) THEN <<>>
      ELSE IF order.isArray THEN order.items ELSE <<order.node>>

\* C12: a well-formed document without a response.order node gives
\* success=true with an empty order list.
C12_NoOrdersIsSuccess ==
  \A i \in Invocations :
    (GetOrdersDone(i) /\ WellFormed(reply[i]) /\ OrderNodes(reply[i]) = <<>>) =>
      /\ ~result[i].threw
      /\ result[i].value.success = TRUE
      /\ result[i].value.orders = <<>>
      /\ response[i].value.success = TRUE
      /\ response[i].value.orders = <<>>

C12_Witness ==
  \E i \in Invocations :
    /\ GetOrdersDone(i) /\ WellFormed(reply[i])
    /\ IsAbsent(reply[i].data.parsed.response.order)
    /\ result[i].value.success = TRUE /\ result[i].value.orders = <<>>

\* C13 as stated: a response with n >= 1 order nodes gives a list of exactly
\* n entries in document order, a lone node giving a one-element list.
C13_OneEntryPerOrderNode ==
  \A i \in Invocations :
    (GetOrdersDone(i) /\ WellFormed(reply[i]) /\ OrderNodes(reply[i]) # <<>>) =>
      /\ Len(result[i].value.orders) = Len(OrderNodes(reply[i]))
      /\ \A p \in 1..Len(result[i].value.orders) :
           result[i].value.orders[p].orderId = OrderNodes(reply[i])[p].order_number

\* ---- validation reasons
\* The validation of submitOrder that rejects the order.
FailureClass(od) ==
  IF IsAbsent(od.shipping_address) THEN "shipping"
  ELSE IF IsAbsent(od.billing_address) THEN "billing"
  ELSE IF IsAbsent(od.line_items) \/ od.line_items.array = <<>> THEN "items"
  ELSE "none"

\* C14: the three validation failures (shipping address, billing address,
\* line items) give failed Outcomes whose error reasons differ pairwise.
C14_DistinctValidationReasons ==
  \A i, j \in Invocations :
    (SubmitDone(i) /\ SubmitDone(j)
       /\ FailureClass(orderData[i]) # "none" /\ FailureClass(orderData[j]) # "none"
       /\ FailureClass(orderData[i]) # FailureClass(orderData[j])) =>
      /\ ~result[i].value.success /\ ~result[j].value.success
      /\ Truthy(result[i].value.error) /\ Truthy(result[j].value.error)
      /\ result[i].value.error # result[j].value.error

C14_Witness ==
  \E i, j \in Invocations :
    /\ SubmitDone(i) /\ FailureClass(orderData[i]) = "shipping"
    /\ SubmitDone(j) /\ FailureClass(orderData[j]) = "billing"
    /\ result[i].value.error = "Shipping address is required"
    /\ result[j].value.error = "Billing address is required"

\* ---- address mapping
ShippingKeys ==
  {"s_first_name", "s_last_name", "s_company", "s_address_1", "s_address_2",
   "s_city", "s_state", "s_country_name", "s_zip_code", "s_contact_no", "s_email"}
BillingKeys ==
  {"b_first_name", "b_last_name", "b_company", "b_address_1", "b_address_2",
   "b_city", "b_state", "b_country_name", "b_zip_code", "b_contact_no", "b_email"}

\* C15 as stated: for a present address every target field is present and a
\* missing optional subfield (company, second address line) is mapped to the
\* empty string, in the mapped result and in the form body.
C15_OptionalSubfieldsEmptyString ==
  /\ (mOp = "mapShippingAddress" /\ ~mOut.threw) =>
       /\ DOMAIN mOut.value = ShippingKeys
       /\ \A k \in ShippingKeys : mOut.value[k] # Undefined
       /\ mIn.shipping_address.company = Undefined => mOut.value.s_company = ""
       /\ mIn.shipping_address.address2 = Undefined => mOut.value.s_address_2 = ""
  /\ (mOp = "mapBillingAddress" /\ ~mOut.threw) =>
       /\ DOMAIN mOut.value = BillingKeys
       /\ \A k \in BillingKeys : mOut.value[k] # Undefined
       /\ mIn.billing_address.company = Undefined => mOut.value.b_company = ""
       /\ mIn.billing_address.address2 = Undefined => mOut.value.b_address_2 = ""
  /\ BodyBuilt => (ShippingKeys \cup BillingKeys) \subseteq DOMAIN mOut.value

\* ---- concurrent order events
\* The Outcome and the acknowledgment of invocation i are those of its own
\* order and of the reply to its own request.
OwnOutcome(i) ==
  /\ response[i].status = 200
  /\ response[i].body.order_id = event[i].payload.order_number
  /\ response[i].body.dropship_success = result[i].value.success
  /\ result[i].value.success <=>
       (reply[i] # NoValue /\ reply[i].kind = "status" /\ reply[i].status = 200)
  /\ result[i].value.success =>
       result[i].value.orderId = PurchaseOrderOf(event[i].payload.order_number)
  /\ request[i] # NoValue =>
       request[i]["customer_po"] = PurchaseOrderOf(event[i].payload.order_number)

\* C16: in every interleaving of concurrent order events, the Outcome and
\* the acknowledgment of each event are determined by its own order and the
\* reply to its own request (two events with the same order and reply end
\* alike, whatever else runs), and the singleton service is never written.
C16_InvocationsIndependent ==
  /\ [](\A i \in Invocations : SubmitDone(i) => OwnOutcome(i))
  /\ [](\A i, j \in Invocations :
          (SubmitDone(i) /\ SubmitDone(j) /\ event[i] = event[j] /\ reply[i] = reply[j]) =>
            (result[i] = result[j] /\ response[i] = response[j] /\ request[i] = request[j]))
  /\ [][service' = service]_vars

C16_Witness ==
  \E i, j \in Invocations :
    /\ SubmitDone(i) /\ SubmitDone(j)
    /\ event[i].payload.order_number = 1001 /\ event[j].payload.order_number = 1002
    /\ reply[i] # NoValue /\ reply[j] # NoValue
    /\ result[i].value.success /\ ~result[j].value.success
    /\ response[i].body.order_id = 1001 /\ response[j].body.order_id = 1002

\* ---- termination of an order event
\* The terminal outcome of a webhook invocation that has responded.
TerminalOutcome(i) ==
  IF response[i].status = 500 THEN "processing-error"
  ELSE IF response[i].status = 200 /\ response[i].body.dropship_success
  THEN "acknowledged-success"
  ELSE IF response[i].status = 200 /\ ~response[i].body.dropship_success
  THEN "acknowledged-failure"
  ELSE "none"

\* C17: provided every HTTP call eventually completes or times out, every
\* order event received ends in one of the three terminal outcomes (from
\* some point on no received event is pending), and its one response, once
\* returned, is never replaced.
C17_EventTerminates ==
  /\ <>[](\A i \in Invocations :
            kind[i] = "webhook" => (pc[i] = "done" /\ response[i] # NoValue))
  /\ [](\A i \in Invocations :
          (kind[i] = "webhook" /\ pc[i] = "done") =>
            TerminalOutcome(i) \in {"acknowledged-success", "acknowledged-failure",
                                    "processing-error"})
  /\ [][\A i \in Invocations :
          (kind[i] = "webhook" /\ response[i] # NoValue) => response'[i] = response[i]]_vars

C17_Witness ==
  \E i, j \in Invocations :
    /\ kind[i] = "webhook" /\ pc[i] = "done" /\ reply[i] # NoValue
    /\ reply[i].kind = "timeout" /\ TerminalOutcome(i) = "acknowledged-failure"
    /\ kind[j] = "webhook" /\ pc[j] = "done"
    /\ TerminalOutcome(j) = "acknowledged-success"

\* ---- purchase-order id
\* C18: getCustomerPO is 'PO-SHOPIFY-' followed by the order number (12345
\* gives 'PO-SHOPIFY-12345'); that value is the customer_po of the form body
\* and the orderId of a successful Outcome.
C18_CustomerPO ==
  /\ getCustomerPO([id |-> 7, order_number |-> 12345]) = "PO-SHOPIFY-12345"
  /\ \A i \in Invocations :
       (kind[i] = "webhook" /\ request[i] # NoValue) =>
         /\ request[i]["customer_po"] = PurchaseOrderOf(orderData[i].order_number)
         /\ (pc[i] = "done" /\ result[i].value.success) =>
              /\ result[i].value.orderId = request[i]["customer_po"]
              /\ result[i].value.orderId = PurchaseOrderOf(orderData[i].order_number)

C18_Witness ==
  \E i \in Invocations :
    /\ SubmitDone(i) /\ result[i].value.success
    /\ orderData[i].order_number = 1001
    /\ request[i]["customer_po"] = "PO-SHOPIFY-1001"
    /\ result[i].value.orderId = "PO-SHOPIFY-1001"

\* ---- acknowledgment
\* C19: every acknowledgment with successful receipt (HTTP 200) has
\* received=true, dropship_success equal to the success flag of the Outcome
\* submitOrder returned for the event, and order_id equal to the event's
\* order number.
C19_AcknowledgmentFields ==
  \A i \in Invocations :
    (kind[i] = "webhook" /\ pc[i] = "done" /\ response[i].status = 200) =>
      /\ DOMAIN response[i].body = {"received", "dropship_success", "order_id"}
      /\ response[i].body.received = TRUE
      /\ ~result[i].threw
      /\ response[i].body.dropship_success = result[i].value.success
      /\ response[i].body.order_id = event[i].payload.order_number

C19_Witness ==
  \E i \in Invocations :
    /\ SubmitDone(i) /\ response[i].status = 200
    /\ result[i].value.success /\ response[i].body.dropship_success
    /\ response[i].body.order_id = 1002

\* ---- missing address
\* C20: mapShippingAddress and mapBillingAddress raise their missing-address
\* error exactly when the address is absent, and return the mapped fields
\* for every present address.
C20_MissingAddressError ==
  /\ mOp = "mapShippingAddress" =>
       /\ mOut.threw <=> IsAbsent(mIn.shipping_address)
       /\ mOut.threw => mOut.error.message = "Shipping address is required"
       /\ ~mOut.threw => /\ DOMAIN mOut.value = ShippingKeys
                         /\ mOut.value.s_last_name = mIn.shipping_address.last_name
  /\ mOp = "mapBillingAddress" =>
       /\ mOut.threw <=> IsAbsent(mIn.billing_address)
       /\ mOut.threw => mOut.error.message = "Billing address is required"
       /\ ~mOut.threw => /\ DOMAIN mOut.value = BillingKeys
                         /\ mOut.value.b_last_name = mIn.billing_address.last_name

C20_Witness ==
  /\ mOp = "mapShippingAddress"
  /\ ~IsAbsent(mIn.shipping_address) /\ mIn.shipping_address.first_name = ""
  /\ ~mOut.threw /\ mOut.value.s_first_name = ""

\* ---- contact email
\* The contact email of the first names in use.
ContactEmailOf(firstName) ==
  CASE firstName = "Jane" -> "jane@customer.com"
    [] firstName = "JOHN" -> "john@customer.com"
    [] firstName \in {"", Undefined} -> ""
    [] OTHER -> "?"

\* C21: for a present address s_email / b_email is the lower-cased first
\* name followed by '@customer.com', or '' without a first name, in the
\* mapped result and in the form body, whatever the order-level and the
\* customer email are.
C21_ContactEmailFromFirstName ==
  /\ (mOp = "mapShippingAddress" /\ ~mOut.threw) =>
       mOut.value.s_email = ContactEmailOf(mIn.shipping_address.first_name)
  /\ (mOp = "mapBillingAddress" /\ ~mOut.threw) =>
       mOut.value.b_email = ContactEmailOf(mIn.billing_address.first_name)
  /\ BodyBuilt =>
       /\ mOut.value["s_email"] = ContactEmailOf(mIn.shipping_address.first_name)
       /\ mOut.value["b_email"] = ContactEmailOf(mIn.billing_address.first_name)

C21_Witness ==
  /\ BodyBuilt
  /\ mIn.shipping_address.first_name = "JOHN" /\ mIn.email = Undefined
  /\ mIn.customer # NoObject /\ mIn.customer.email = "cust@example.com"
  /\ mOut.value["s_email"] = "john@customer.com"
  /\ mOut.value["b_email"] = "john@customer.com"
  /\ mOut.value["email"] = "cust@example.com"

\* ---- customer email
\* C22: getCustomerEmail is the order-level email when non-empty, otherwise
\* the customer record's email when non-empty, otherwise ''.
C22_CustomerEmailPreference ==
  /\ mOp = "getCustomerEmail" =>
       /\ ~mOut.threw
       /\ mIn.email \notin {Undefined, ""} => mOut.value = mIn.email
       /\ (mIn.email \in {Undefined, ""} /\ mIn.customer # NoObject
             /\ mIn.customer.email \notin {Undefined, ""}) =>
            mOut.value = mIn.customer.email
       /\ (mIn.email \in {Undefined, ""}
             /\ (mIn.customer = NoObject \/ mIn.customer.email \in {Undefined, ""})) =>
            mOut.value = ""
  /\ (BodyBuilt /\ mIn.email \notin {Undefined, ""}) => mOut.value["email"] = mIn.email

C22_Witness ==
  /\ mOp = "getCustomerEmail"
  /\ mIn.email = "jane@example.com"
  /\ mIn.customer # NoObject /\ mIn.customer.email = "cust@example.com"
  /\ mOut.value = "jane@example.com"

\* ---- normalized orders
\* formatOrders was applied to an array of order nodes and returned.
FormatDone == mOp = "formatOrders" /\ ~mOut.threw
Blank(name) == name \in {Undefined, ""}
\* The shipping first / last name of an order node (undefined without the
\* order_billing_shipping element).
ShippingFirstName(node) ==
  IF IsAbsent(node.order_billing_shipping) THEN Undefined
  ELSE node.order_billing_shipping.s_first_name
ShippingLastName(node) ==
  IF IsAbsent(node.order_billing_shipping) THEN Undefined
  ELSE node.order_billing_shipping.s_last_name

\* C23: customerName of every normalized order is the shipping first and
\* last name joined by a space and trimmed; it is 'N/A' exactly when both
\* names are blank or absent.
C23_CustomerName ==
  FormatDone =>
    /\ Len(mOut.value) = Len(mIn.ordersArray)
    /\ \A p \in 1..Len(mOut.value) :
         LET first == ShippingFirstName(mIn.ordersArray[p])
             last  == ShippingLastName(mIn.ordersArray[p])
             name  == mOut.value[p].customerName
         IN  /\ name = "N/A" <=> (Blank(first) /\ Blank(last))
             /\ (~Blank(first) /\ ~Blank(last)) => name = "Jane Doe"
             /\ (~Blank(first) /\ Blank(last)) => name = first
             /\ (Blank(first) /\ ~Blank(last)) => name = last

C23_Witness ==
  /\ FormatDone /\ Len(mOut.value) = 2
  /\ ShippingFirstName(mIn.ordersArray[1]) = "Jane"
  /\ ShippingLastName(mIn.ordersArray[1]) = Undefined
  /\ mOut.value[1].customerName = "Jane"
  /\ IsAbsent(mIn.ordersArray[2].order_billing_shipping)
  /\ mOut.value[2].customerName = "N/A"

\* C24: trackingNumber of every normalized order is the node's awbn when
\* that is present and non-empty and undefined otherwise, never 'N/A'.
C24_TrackingNumber ==
  FormatDone =>
    \A p \in 1..Len(mOut.value) :
      LET awbn == mIn.ordersArray[p].awbn
      IN  /\ awbn \notin {Undefined, ""} => mOut.value[p].trackingNumber = awbn
          /\ awbn \in {Undefined, ""} => mOut.value[p].trackingNumber = Undefined
          /\ mOut.value[p].trackingNumber # "N/A"

C24_Witness ==
  /\ FormatDone /\ Len(mOut.value) = 2
  /\ mIn.ordersArray[1].awbn = "1Z999" /\ mOut.value[1].trackingNumber = "1Z999"
  /\ mIn.ordersArray[2].awbn = "" /\ mOut.value[2].trackingNumber = Undefined

\* ---- the order is read only
\* C25: the order handed to submitOrder keeps the identifier, order number,
\* email, line items and addresses it was built with, through validation,
\* the Field Mapper calls and the POST, on success and on failure.
C25_OrderUnchanged ==
  /\ [](\A i \in Invocations :
          (kind[i] = "webhook" /\ orderData[i] # NoValue) =>
            orderData[i] = extractOrderData(event[i].payload))
  /\ [][\A i \in Invocations :
          orderData[i] # NoValue => orderData'[i] = orderData[i]]_vars

C25_Witness ==
  \E i, j \in Invocations :
    /\ SubmitDone(i) /\ MapperRaises(orderData[i]) /\ ~result[i].value.success
    /\ orderData[i].line_items = Arr(<<ItemA, NullItem>>)
    /\ SubmitDone(j) /\ result[j].value.success
    /\ orderData[j].line_items = Arr(<<ItemNoSku, ItemA>>)
    /\ orderData[j].shipping_address = FullAddress

\* ---- connectivity probe
\* C26: testConnection never throws; it issues one POST carrying only the
\* credentials and returns true exactly when the response has status 200,
\* false on any other status, a timeout or a network failure.
C26_TestConnection ==
  \A i \in Invocations :
    kind[i] = "testConnection" =>
      /\ httpCalls[i] = 1
      /\ DOMAIN request[i] = {"uname", "pass"}
      /\ request[i]["uname"] = service.username /\ request[i]["pass"] = service.password
      /\ pc[i] = "done" =>
           /\ ~result[i].threw
           /\ result[i].value \in BOOLEAN
           /\ result[i].value <=> (reply[i].kind = "status" /\ reply[i].status = 200)

C26_Witness ==
  \E i, j \in Invocations :
    /\ kind[i] = "testConnection" /\ pc[i] = "done"
    /\ reply[i].kind = "status" /\ reply[i].status = 201 /\ result[i].value = FALSE
    /\ kind[j] = "testConnection" /\ pc[j] = "done"
    /\ reply[j].status = 200 /\ result[j].value = TRUE

\* ---- Outcome well-formedness
\* C27 as stated: a failed Outcome has a populated error and no orderId, a
\* successful Outcome has an orderId and no error, for every provider
\* response including a 2xx status other than 200.
C27_OutcomeWellFormed ==
  \A i \in Invocations :
    SubmitDone(i) =>
      IF result[i].value.success
      THEN /\ "orderId" \in DOMAIN result[i].value
           /\ "error" \notin DOMAIN result[i].value
      ELSE /\ "error" \in DOMAIN result[i].value
           /\ Truthy(result[i].value.error)
           /\ "orderId" \notin DOMAIN result[i].value

\* ---- orders without any SKU
\* The order passes validation and mapping and none of its items has a SKU.
NoSkuOrder(od) ==
  /\ ~Invalid(od) /\ ~MapperRaises(od)
  /\ SkuPositions(od.line_items) = {}

\* C28: an order with both addresses and a non-empty line-item sequence
\* without any SKU passes validation: the POST is issued without a
\* productBucket field and a 200 answer is reported as success.
C28_NoSkuOrderSubmitted ==
  \A i \in Invocations :
    (kind[i] = "webhook" /\ orderData[i] # NoValue /\ NoSkuOrder(orderData[i])) =>
      /\ httpCalls[i] = 1
      /\ request[i] # NoValue
      /\ DOMAIN request[i] \subseteq FixedFormKeys
      /\ (pc[i] = "done" /\ reply[i].kind = "status" /\ reply[i].status = 200) =>
           /\ result[i].value.success = TRUE
           /\ response[i].status = 200
           /\ response[i].body.dropship_success = TRUE

C28_Witness ==
  \E i \in Invocations :
    /\ SubmitDone(i) /\ orderData[i].line_items = Arr(<<ItemNoSku>>)
    /\ reply[i] # NoValue /\ reply[i].status = 200
    /\ "productBucket[0][sku]" \notin DOMAIN request[i]
    /\ result[i].value.success = TRUE

\* ---- one bad order node
\* Some order node of the document has an order_status that is not a string.
HasBadNode(rep) ==
  \E p \in 1..Len(OrderNodes(rep)) : OrderNodes(rep)[p].order_status = NotAString

\* C29: when normalizing one order node raises, getOrders returns
\* success=true with an empty list: the other orders of the response are
\* dropped and no failure is reported.
C29_BadNodeEmptiesList ==
  \A i \in Invocations :
    (GetOrdersDone(i) /\ WellFormed(reply[i]) /\ HasBadNode(reply[i])) =>
      /\ ~result[i].threw
      /\ result[i].value.success = TRUE
      /\ result[i].value.orders = <<>>
      /\ "error" \notin DOMAIN result[i].value
      /\ response[i].value.error = Undefined

C29_Witness ==
  \E i \in Invocations :
    /\ GetOrdersDone(i) /\ WellFormed(reply[i]) /\ HasBadNode(reply[i])
    /\ Len(OrderNodes(reply[i])) = 2
    /\ OrderNodes(reply[i])[1].order_status = "Order Shipped"
    /\ result[i].value.success = TRUE /\ result[i].value.orders = <<>>

\* ---- repeated deliveries
\* The order of the event reaches the POST of submitOrder.
Submittable(od) == ~Invalid(od) /\ ~MapperRaises(od)

\* C30: no deduplication: every delivery of an order event issues its own
\* POST, deliveries of the same event carry the same customer_po, and each
\* delivery gets its own acknowledgment.
C30_NoDeduplication ==
  /\ \A i \in Invocations :
       (kind[i] = "webhook" /\ orderData[i] # NoValue /\ Submittable(orderData[i])) =>
         /\ httpCalls[i] = 1
         /\ request[i] # NoValue
         /\ pc[i] = "done" =>
              /\ reply[i] # NoValue
              /\ response[i].status = 200
              /\ response[i].body.dropship_success =
                   (reply[i].kind = "status" /\ reply[i].status = 200)
  /\ \A i, j \in Invocations :
       (i # j /\ kind[i] = "webhook" /\ kind[j] = "webhook" /\ event[i] = event[j]
          /\ request[i] # NoValue) =>
         /\ request[j] # NoValue
         /\ request[j]["customer_po"] = request[i]["customer_po"]
         /\ httpCalls[i] + httpCalls[j] = 2

C30_Witness ==
  \E i, j \in Invocations :
    /\ i # j /\ SubmitDone(i) /\ SubmitDone(j) /\ event[i] = event[j]
    /\ httpCalls[i] = 1 /\ httpCalls[j] = 1
    /\ request[i]["customer_po"] = "PO-SHOPIFY-1001"
    /\ request[j]["customer_po"] = "PO-SHOPIFY-1001"
    /\ reply[i].status = 200 /\ reply[j].kind = "timeout"
    /\ response[i].body.dropship_success /\ ~response[j].body.dropship_success

====
